---- MODULE Spec2Model ----
(***************************************************************************)
(* Model of the LinkedIn hiring-post scraper pipeline (src/main.py,        *)
(* src/utils.py, src/parser.py, src/scraper.py, src/storage.py).           *)
(*                                                                         *)
(* Python strings are sequences of one-character strings, so that slicing, *)
(* startswith, whitespace collapsing and word-boundary matching are        *)
(* computed on characters as the code computes them.  A dict is a record   *)
(* with a field "keys" holding the set of keys that are present; a field   *)
(* whose key is not present holds the value dict.get would default to.     *)
(***************************************************************************)
EXTENDS Integers, Sequences, FiniteSets, TLC

(***************************************************************************)
(* Characters and string helpers                                           *)
(***************************************************************************)
LowerLetters == {"a", "b", "c", "d", "e", "f", "g", "h", "i", "j", "k", "l", "m", "n", "o", "p", "q", "r", "s", "t", "u", "v", "w", "x", "y", "z"}

UpperLetters == {"A", "B", "C", "D", "E", "F", "G", "H", "I", "J", "K", "L", "M", "N", "O", "P", "Q", "R", "S", "T", "U", "V", "W", "X", "Y", "Z"}

Digits == {"0", "1", "2", "3", "4", "5", "6", "7", "8", "9"}

\* the characters the regular expression class \w matches
WordChars == LowerLetters \cup UpperLetters \cup Digits \cup {"_"}

\* the characters the regular expression class \s matches, and str.strip() strips
Whitespace == {" ", "\t", "\n", "\r", "\f"}

LowerOf == ("A" :> "a") @@ ("B" :> "b") @@ ("C" :> "c") @@ ("D" :> "d") @@ ("E" :> "e") @@ ("F" :> "f") @@ ("G" :> "g") @@ ("H" :> "h") @@ ("I" :> "i") @@ ("J" :> "j") @@ ("K" :> "k") @@ ("L" :> "l") @@ ("M" :> "m") @@ ("N" :> "n") @@ ("O" :> "o") @@ ("P" :> "p") @@ ("Q" :> "q") @@ ("R" :> "r") @@ ("S" :> "s") @@ ("T" :> "t") @@ ("U" :> "u") @@ ("V" :> "v") @@ ("W" :> "w") @@ ("X" :> "x") @@ ("Y" :> "y") @@ ("Z" :> "z")

\* str.lower()
Lower(s) == [i \in 1..Len(s) |-> IF s[i] \in UpperLetters THEN LowerOf[s[i]] ELSE s[i]]

Min(a, b) == IF a <= b THEN a ELSE b

\* s[:n]
Prefix(s, n) == SubSeq(s, 1, Min(n, Len(s)))

\* s.startswith(p)
StartsWith(s, p) == Len(s) >= Len(p) /\ SubSeq(s, 1, Len(p)) = p

\* s.rfind(c) as a 1-based position, 0 when c does not occur (Python: -1)
RFind(s, c) == LET hits == {i \in 1..Len(s) : s[i] = c}
               IN  IF hits = {} THEN 0 ELSE CHOOSE i \in hits : \A j \in hits : j <= i

\* s.strip()
Strip(s) == LET solid == {i \in 1..Len(s) : s[i] \notin Whitespace}
            IN  IF solid = {} THEN <<>>
                ELSE SubSeq(s, CHOOSE i \in solid : \A j \in solid : i <= j,
                               CHOOSE i \in solid : \A j \in solid : j <= i)

\* re.sub(r'\s+', ' ', s): the first character of every run of whitespace
\* becomes a space and the rest of the run goes
CollapseWhitespace(s) ==
    LET marked  == [i \in 1..Len(s) |->
                      [c |-> IF s[i] \in Whitespace THEN " " ELSE s[i],
                       stays |-> s[i] \notin Whitespace \/ i = 1 \/ s[i - 1] \notin Whitespace]]
        Stays(m) == m.stays
        kept    == SelectSeq(marked, Stays)
    IN  [i \in 1..Len(kept) |-> kept[i].c]

(***************************************************************************)
(* Program constants                                                       *)
(***************************************************************************)
BaseUrl == <<"h", "t", "t", "p", "s", ":", "/", "/", "w", "w", "w", ".", "l", "i", "n", "k", "e", "d", "i", "n", ".", "c", "o", "m">>

HttpPrefix == <<"h", "t", "t", "p">>

FeedPostPath == <<"/", "f", "e", "e", "d", "/", "p", "o", "s", "t", "/">>

Ellipsis == <<".", ".", ".">>

\* extract_text_snippet's default max_length
SnippetMaxLength == 200

\* deduplicate_posts hashes text[:50] in its last fallback
KeyPrefixLength == 50

\* config.get('days_limit', 7)
DefaultDaysLimit == 7

(***************************************************************************)
(* utils.py: text functions                                                *)
(***************************************************************************)
\* hashlib.md5(text.encode()).hexdigest(): a digest is modelled as a value
\* tagged "md5" that determines, and is determined by, the hashed text
\* (no collisions), and that no URL or text of the model equals.
Md5HexDigest(text) == <<"md5">> \o text

\* hashlib.md5(text.encode()).hexdigest()[:12], the truncated digest
\* _extract_single_post embeds in a placeholder URL
Md5HexPrefix(text) == <<"md5[:12]">> \o text

\* normalize_text without text.strip()
normalize_text_NoStrip(text) == IF text = <<>> THEN <<>> ELSE CollapseWhitespace(text)

normalize_text(text) == IF text = <<>> THEN <<>> ELSE Strip(CollapseWhitespace(text))

\* extract_text_snippet with < in the test of line 82
extract_text_snippet_StrictLength(text, max_length) ==
    IF text = <<>> THEN <<>>
    ELSE IF Len(text) < max_length THEN text
    ELSE LET snippet    == SubSeq(text, 1, max_length)
             last_space == RFind(snippet, " ") - 1
         IN  (IF 10 * last_space > 8 * max_length
              THEN SubSeq(snippet, 1, last_space) ELSE snippet) \o Ellipsis

\* extract_text_snippet with >= in the test of line 89
extract_text_snippet_Inclusive(text, max_length) ==
    IF text = <<>> THEN <<>>
    ELSE IF Len(text) <= max_length THEN text
    ELSE LET snippet    == SubSeq(text, 1, max_length)
             last_space == RFind(snippet, " ") - 1
         IN  (IF 10 * last_space >= 8 * max_length
              THEN SubSeq(snippet, 1, last_space) ELSE snippet) \o Ellipsis

extract_text_snippet(text, max_length) ==
    IF text = <<>> THEN <<>>
    ELSE IF Len(text) <= max_length THEN text
    ELSE LET snippet    == SubSeq(text, 1, max_length)
             last_space == RFind(snippet, " ") - 1
         IN  (IF 10 * last_space > 8 * max_length
              THEN SubSeq(snippet, 1, last_space) ELSE snippet) \o Ellipsis

\* is there a \b between s[i] and s[i+1] (i = 0 is the start, Len(s) the end)
WordBoundary(s, i) ==
    LET before == i >= 1 /\ s[i] \in WordChars
        after  == i < Len(s) /\ s[i + 1] \in WordChars
    IN  before # after

\* does \b kw \b match s starting at position p
MatchAt(s, kw, p) ==
    /\ p + Len(kw) - 1 <= Len(s)
    /\ SubSeq(s, p, p + Len(kw) - 1) = kw
    /\ WordBoundary(s, p - 1)
    /\ WordBoundary(s, p + Len(kw) - 1)

\* len(re.findall(pattern, s)): non-overlapping matches, scanning left to right
RECURSIVE CountMatches(_, _, _)
CountMatches(s, kw, p) ==
    IF p > Len(s) + 1 THEN 0
    ELSE IF MatchAt(s, kw, p)
         THEN 1 + CountMatches(s, kw, IF Len(kw) = 0 THEN p + 1 ELSE p + Len(kw))
         ELSE CountMatches(s, kw, p + 1)

\* SumMatches that returns at the first keyword that matches
RECURSIVE SumMatches_FirstMatching(_, _, _)
SumMatches_FirstMatching(text_lower, keywords, i) ==
    IF i > Len(keywords) THEN 0
    ELSE LET matches == CountMatches(text_lower, Lower(keywords[i]), 1)
         IN  IF matches > 0 THEN matches ELSE SumMatches_FirstMatching(text_lower, keywords, i + 1)

RECURSIVE SumMatches(_, _, _)
SumMatches(text_lower, keywords, i) ==
    IF i > Len(keywords) THEN 0
    ELSE CountMatches(text_lower, Lower(keywords[i]), 1) + SumMatches(text_lower, keywords, i + 1)

calculate_relevance_score(text, keywords) ==
    IF text = <<>> \/ keywords = <<>> THEN 0
    ELSE SumMatches(Lower(text), keywords, 1)

(***************************************************************************)
(* date_posted values.  Time is counted in days.  kind "datetime" is a     *)
(* datetime object, naive (tz "naive") or aware (tz "utc"); kind "str" is  *)
(* a text: ok says whether its body is ISO-8601, t is the time it denotes, *)
(* tz its suffix: none ("naive"), a trailing "Z", or "+00:00" ("utc").     *)
(***************************************************************************)
Date(kind, ok, t, tz) == [kind |-> kind, ok |-> ok, t |-> t, tz |-> tz]

\* the value of post.get('date_posted') when the key is missing
NoDate == Date("none", FALSE, 0, "naive")

DatetimeNaive(t) == Date("datetime", TRUE, t, "naive")

DatetimeAware(t) == Date("datetime", TRUE, t, "utc")

\* date_text.replace('Z', '+00:00')
replace_Z(d) == [d EXCEPT !.tz = IF @ = "Z" THEN "utc" ELSE @]

\* datetime.fromisoformat(d): [ok, value]; ok = FALSE is a ValueError.  A
\* trailing "Z" is accepted only by interpreters from Python 3.11 on (acceptsZ).
fromisoformat(d, acceptsZ) ==
    IF d.ok /\ (d.tz # "Z" \/ acceptsZ)
    THEN [ok |-> TRUE, value |-> Date("datetime", TRUE, d.t, IF d.tz = "naive" THEN "naive" ELSE "utc")]
    ELSE [ok |-> FALSE, value |-> NoDate]

\* d >= cutoff_date, cutoff_date naive: comparing an aware datetime with a
\* naive one is a TypeError
CompareRaises(d) == d.tz # "naive"

(***************************************************************************)
(* Post dictionaries                                                       *)
(***************************************************************************)
Post(uid, keys, post_url, author_url, text, date_posted) ==
    [shape |-> "mapping", uid |-> uid, keys |-> keys, post_url |-> post_url,
     author_url |-> author_url, text |-> text, text_snippet |-> <<>>,
     date_posted |-> date_posted, score |-> 0]

\* post.get(key): the stored value, or the empty (falsy) default
Get(post, key) == IF key \in post.keys THEN post[key] ELSE <<>>

GetDate(post) == IF "date_posted" \in post.keys THEN post.date_posted ELSE NoDate

(***************************************************************************)
(* main.py: filter_posts_by_date                                           *)
(***************************************************************************)
\* one iteration of the loop: "keep" (appended), "drop", or "raise" (the
\* comparison at line 54 is outside any try)
FilterOutcome(post, cutoff_date, acceptsZ) ==
    LET date_posted == GetDate(post) IN
    IF date_posted.kind = "datetime"
    THEN IF CompareRaises(date_posted) THEN "raise"
         ELSE IF date_posted.t >= cutoff_date THEN "keep" ELSE "drop"
    ELSE IF date_posted.kind = "str"
    THEN LET parsed == fromisoformat(replace_Z(date_posted), acceptsZ) IN
         IF ~parsed.ok THEN "keep"
         ELSE IF CompareRaises(parsed.value) THEN "keep"
         ELSE IF parsed.value.t >= cutoff_date THEN "keep" ELSE "drop"
    ELSE "keep"

\* filter_posts_by_date whose test of line 45 lets a days_limit of 0 through
filter_posts_by_date_NegativeOnly(posts, days_limit, clock, acceptsZ) ==
    IF days_limit < 0 THEN [raised |-> FALSE, posts |-> posts]
    ELSE LET cutoff_date == clock - days_limit
             Kept(post)  == FilterOutcome(post, cutoff_date, acceptsZ) = "keep"
         IN  [raised |-> \E i \in 1..Len(posts) :
                            FilterOutcome(posts[i], cutoff_date, acceptsZ) = "raise",
              posts  |-> SelectSeq(posts, Kept)]

\* [raised, posts]: raised when an iteration raises, else the filtered list
filter_posts_by_date(posts, days_limit, clock, acceptsZ) ==
    IF days_limit <= 0 THEN [raised |-> FALSE, posts |-> posts]
    ELSE LET cutoff_date == clock - days_limit
             Kept(post)  == FilterOutcome(post, cutoff_date, acceptsZ) = "keep"
         IN  [raised |-> \E i \in 1..Len(posts) :
                            FilterOutcome(posts[i], cutoff_date, acceptsZ) = "raise",
              posts  |-> SelectSeq(posts, Kept)]

(***************************************************************************)
(* utils.py: deduplicate_posts                                             *)
(***************************************************************************)
\* ResolveKey without the full-text step of lines 112-116
ResolveKey_PrefixOnly(post, key) ==
    LET k1 == Get(post, key)
        t  == Prefix(Get(post, "text"), KeyPrefixLength)
    IN  IF k1 = <<>> /\ t # <<>> THEN Md5HexDigest(t) ELSE k1

\* the key the loop body resolves for a post; <<>> when there is none
ResolveKey(post, key) ==
    LET k1 == Get(post, key)
        k2 == IF k1 = <<>> /\ key = "post_url" /\ Get(post, "text") # <<>>
              THEN Md5HexDigest(Get(post, "text")) ELSE k1
        t  == Prefix(Get(post, "text"), KeyPrefixLength)
    IN  IF k2 = <<>> /\ t # <<>> THEN Md5HexDigest(t) ELSE k2

\* DedupeStep without seen.add(post_key)
DedupeStep_NeverSeen(st, post, post_key) ==
    IF post_key # <<>> /\ post_key \notin st.seen
    THEN [seen |-> st.seen, unique_posts |-> Append(st.unique_posts, post)]
    ELSE IF post_key = <<>>
    THEN [seen |-> st.seen, unique_posts |-> Append(st.unique_posts, post)]
    ELSE st

\* DedupeStep without the branch of lines 128-130: the empty key is a key
DedupeStep_KeylessOnce(st, post, post_key) ==
    IF post_key \notin st.seen
    THEN [seen |-> st.seen \cup {post_key}, unique_posts |-> Append(st.unique_posts, post)]
    ELSE st

\* DedupeStep that forgets a key once it has dropped a duplicate of it
DedupeStep_Forget(st, post, post_key) ==
    IF post_key # <<>> /\ post_key \notin st.seen
    THEN [seen |-> st.seen \cup {post_key}, unique_posts |-> Append(st.unique_posts, post)]
    ELSE IF post_key = <<>>
    THEN [seen |-> st.seen, unique_posts |-> Append(st.unique_posts, post)]
    ELSE [seen |-> st.seen \ {post_key}, unique_posts |-> st.unique_posts]

\* lines 125-130: st = [seen, unique_posts]
DedupeStep(st, post, post_key) ==
    IF post_key # <<>> /\ post_key \notin st.seen
    THEN [seen |-> st.seen \cup {post_key}, unique_posts |-> Append(st.unique_posts, post)]
    ELSE IF post_key = <<>>
    THEN [seen |-> st.seen, unique_posts |-> Append(st.unique_posts, post)]
    ELSE st

RECURSIVE DedupeLoop(_, _, _, _)
DedupeLoop(posts, key, i, st) ==
    IF i > Len(posts) THEN st
    ELSE DedupeLoop(posts, key, i + 1, DedupeStep(st, posts[i], ResolveKey(posts[i], key)))

deduplicate_posts(posts, key) ==
    DedupeLoop(posts, key, 1, [seen |-> {}, unique_posts |-> <<>>]).unique_posts

(***************************************************************************)
(* main.py: score_and_rank_posts                                           *)
(***************************************************************************)
\* InsertByScore of a sort that puts x ahead of the items of equal score
InsertByScore_BeforeTies(sorted, x) ==
    LET ahead == {i \in 1..Len(sorted) : sorted[i].score > x.score}
        n     == Cardinality(ahead)
    IN  SubSeq(sorted, 1, n) \o <<x>> \o SubSeq(sorted, n + 1, Len(sorted))

\* where list.sort(key=score, reverse=True) puts x among the already ordered
\* items: after every item whose score is not smaller (the sort is stable)
InsertByScore(sorted, x) ==
    LET ahead == {i \in 1..Len(sorted) : sorted[i].score >= x.score}
        n     == Cardinality(ahead)
    IN  SubSeq(sorted, 1, n) \o <<x>> \o SubSeq(sorted, n + 1, Len(sorted))

RECURSIVE SortByScoreDesc(_)
SortByScoreDesc(posts) ==
    IF posts = <<>> THEN <<>>
    ELSE InsertByScore(SortByScoreDesc(SubSeq(posts, 1, Len(posts) - 1)), posts[Len(posts)])

score_and_rank_posts(posts, keywords) ==
    SortByScoreDesc([i \in 1..Len(posts) |->
        [posts[i] EXCEPT !.score = calculate_relevance_score(Get(posts[i], "text"), keywords),
                         !.keys  = @ \cup {"score"}]])

(***************************************************************************)
(* parser.py: clean_post_data                                              *)
(***************************************************************************)
\* CompleteUrl without the startswith('http') test
CompleteUrl_Always(post, key) ==
    IF key \in post.keys /\ post[key] # <<>> THEN BaseUrl \o post[key] ELSE post[key]

\* lines 175-181: a non-empty URL that does not start with "http" is prefixed
CompleteUrl(post, key) ==
    IF key \in post.keys /\ post[key] # <<>> /\ ~StartsWith(post[key], HttpPrefix)
    THEN BaseUrl \o post[key] ELSE post[key]

clean_post_data(post, clock, acceptsZ) ==
    LET text == IF "text" \in post.keys THEN normalize_text(post.text) ELSE post.text
        date == IF "date_posted" \in post.keys /\ post.date_posted.kind = "str"
                THEN LET parsed == fromisoformat(post.date_posted, acceptsZ)
                     IN  IF parsed.ok THEN parsed.value ELSE DatetimeNaive(clock)
                ELSE post.date_posted
    IN  [post EXCEPT !.text         = text,
                     !.text_snippet = IF "text" \in post.keys
                                      THEN extract_text_snippet(text, SnippetMaxLength) ELSE @,
                     !.keys         = IF "text" \in post.keys THEN @ \cup {"text_snippet"} ELSE @,
                     !.post_url     = CompleteUrl(post, "post_url"),
                     !.author_url   = CompleteUrl(post, "author_url"),
                     !.date_posted  = date]

(***************************************************************************)
(* The adapter: one raw unit to a post dictionary or None.  A raw unit is  *)
(* a record of the same fields with its shape: "mapping" (a dict), "soup"  *)
(* (a BeautifulSoup node) or "element" (a Playwright element).  For a node *)
(* post_url and author_url hold the href of the permalink and of the       *)
(* profile link, text the text its locators yield, date_posted the         *)
(* datetime attribute of its time element; a key is in keys when the node  *)
(* has that child.  The result is a sequence: <<>> for None.               *)
(***************************************************************************)
\* href if href.startswith('http') else base_url + href
AbsoluteHref(href) == IF StartsWith(href, HttpPrefix) THEN href ELSE BaseUrl \o href

\* the date both node paths read from the time element's datetime attribute;
\* NoDate when there is none or it does not parse
NodeDate(node, acceptsZ) ==
    IF "date_posted" \in node.keys /\ node.date_posted.kind = "str"
    THEN fromisoformat(replace_Z(node.date_posted), acceptsZ).value
    ELSE NoDate

NodeUrl(node, key) == IF Get(node, key) # <<>> THEN AbsoluteHref(node[key]) ELSE <<>>

AllKeys == {"post_url", "author_url", "text", "text_snippet", "date_posted"}

parse_post_element(element, clock, acceptsZ) ==
    IF element.shape = "mapping" THEN <<element>>
    ELSE IF element.shape = "soup"
    THEN LET post_url    == NodeUrl(element, "post_url")
             text        == normalize_text(Get(element, "text"))
             date_posted == NodeDate(element, acceptsZ)
         IN  IF post_url = <<>> \/ text = <<>> THEN <<>>
             ELSE << [element EXCEPT
                        !.keys = AllKeys,
                        !.post_url = post_url,
                        !.author_url = NodeUrl(element, "author_url"),
                        !.text = text,
                        !.text_snippet = extract_text_snippet(text, SnippetMaxLength),
                        !.date_posted = IF date_posted.kind = "none"
                                        THEN DatetimeNaive(clock) ELSE date_posted] >>
    ELSE <<>>

\* scraper.py:654-673: post_data, cleaned
ElementPost(element, clock, acceptsZ) ==
    LET found_url   == NodeUrl(element, "post_url")
        text        == Get(element, "text")
        date_posted == NodeDate(element, acceptsZ)
    IN  clean_post_data(
          [element EXCEPT
             !.keys = AllKeys \ {"text_snippet"},
             !.post_url = IF found_url = <<>>
                          THEN BaseUrl \o FeedPostPath \o Md5HexPrefix(text) ELSE found_url,
             !.author_url = NodeUrl(element, "author_url"),
             !.text = Strip(text),
             !.date_posted = IF date_posted.kind = "none"
                             THEN DatetimeNaive(clock) ELSE date_posted],
          clock, acceptsZ)

\* extract_single_post without the test of lines 650-652
extract_single_post_NoSkip(element, clock, acceptsZ) ==
    <<ElementPost(element, clock, acceptsZ)>>

extract_single_post(element, clock, acceptsZ) ==
    IF NodeUrl(element, "post_url") = <<>> /\ Get(element, "text") = <<>> THEN <<>>
    ELSE <<ElementPost(element, clock, acceptsZ)>>

Adapter(unit, clock, acceptsZ) ==
    IF unit.shape = "element" THEN extract_single_post(unit, clock, acceptsZ)
    ELSE parse_post_element(unit, clock, acceptsZ)

RECURSIVE AdaptAll(_, _, _)
AdaptAll(raw, clock, acceptsZ) ==
    IF raw = <<>> THEN <<>>
    ELSE Adapter(Head(raw), clock, acceptsZ) \o AdaptAll(Tail(raw), clock, acceptsZ)

(***************************************************************************)
(* Inputs of the model                                                     *)
(***************************************************************************)
\* longest batch of raw units of one run
MaxUnits == 2

\* the clock of the run, in days
ClockStart == 20

UrlRel1 == <<"/", "p", "o", "s", "t", "s", "/", "1">>

UrlAbs1 == <<"h", "t", "t", "p", "s", ":", "/", "/", "w", "w", "w", ".", "l", "i", "n", "k", "e", "d", "i", "n", ".", "c", "o", "m", "/", "p", "o", "s", "t", "s", "/", "1">>

TextHiring == <<"W", "e", " ", "a", "r", "e", " ", "h", "i", "r", "i", "n", "g", " ", "e", "n", "g", "i", "n", "e", "e", "r", "s">>

TextDup == <<"d", "u", "p", "l", "i", "c", "a", "t", "e">>

KwHiring == <<"h", "i", "r", "i", "n", "g">>

KwNowHiring == <<"N", "o", "w", " ", "H", "i", "r", "i", "n", "g">>

\* a text whose two words a run of whitespace separates
TextNowSpaced == <<"N", "o", "w", " ", " ", "h", "i", "r", "i", "n", "g">>

Unit(shape, keys, post_url, text, date_posted) ==
    [Post(0, keys, post_url, <<>>, text, date_posted) EXCEPT !.shape = shape]

\* the forms a date_posted takes: datetime naive and aware, text with and
\* without a UTC marker or offset, text that does not parse; 10 days old, or
\* exactly DefaultDaysLimit days old
DateForms ==
    { DatetimeNaive(ClockStart - 10), DatetimeNaive(ClockStart - DefaultDaysLimit),
      DatetimeAware(ClockStart - 10),
      Date("str", TRUE, ClockStart - 10, "naive"), Date("str", TRUE, ClockStart - 10, "Z"),
      Date("str", TRUE, ClockStart - 10, "utc"), Date("str", FALSE, 0, "naive") }

MappingUnits ==
    { Unit("mapping", IF u = <<>> THEN {"text"} ELSE {"post_url", "text"}, u, t, NoDate) :
        u \in {<<>>, UrlRel1, UrlAbs1}, t \in {<<>>, TextHiring, TextDup} }
    \cup
    { Unit("mapping", {"post_url", "text", "date_posted"}, UrlRel1, t, d) :
        t \in {TextHiring, TextDup}, d \in DateForms }
    \cup
    { Unit("mapping", {"text", "date_posted"}, <<>>, <<>>, DatetimeNaive(ClockStart - 10)) }
    \cup
    { [Unit("mapping", {"post_url", "text_snippet"}, UrlAbs1, <<>>, NoDate) EXCEPT !.text_snippet = TextDup] }
    \cup
    { Unit("mapping", {"text"}, <<>>, TextNowSpaced, NoDate) }

NodeUnits ==
    { Unit(shape, (IF u = <<>> THEN {} ELSE {"post_url"}) \cup (IF t = <<>> THEN {} ELSE {"text"}),
           u, t, NoDate) :
        shape \in {"soup", "element"}, u \in {<<>>, UrlRel1}, t \in {<<>>, TextDup} }

RawUnits == MappingUnits \cup NodeUnits

\* list.append(item), the item numbered by its position in the list
Numbered(list, item) == Append(list, [item EXCEPT !.uid = Len(list) + 1])

(***************************************************************************)
(* The run of main(): state                                                *)
(***************************************************************************)
VARIABLES
    pc,          \* where the run is
    units,       \* the raw units the driver supplies
    adapted,     \* the records as the adapter created them
    posts,       \* main's variable posts
    keywords,    \* config keywords
    days_limit,  \* config days_limit
    now,         \* datetime.now()
    isoZ,        \* whether the interpreter's fromisoformat accepts "Z"
    stored,      \* the arguments of the calls of StorageManager.save_posts
    logLines,    \* lines appended by write_log
    reported,    \* whether the run has printed the CSV and database paths
    key,         \* key of a direct call of deduplicate_posts
    inp,         \* argument of a direct call of a pipeline function
    out,         \* its result
    out2         \* the result of applying it to its result

vars == <<pc, units, adapted, posts, keywords, days_limit, now, isoZ, stored, logLines,
          reported, key, inp, out, out2>>

direct == <<key, inp, out, out2>>

config == <<units, keywords, days_limit, now, isoZ>>

Init ==
    /\ pc = "start"
    /\ units = <<>>
    /\ adapted = <<>>
    /\ posts = <<>>
    /\ keywords = <<KwHiring, KwNowHiring>>
    /\ days_limit \in {0, DefaultDaysLimit}
    /\ now = ClockStart
    /\ isoZ \in BOOLEAN
    /\ stored = <<>>
    /\ logLines = 0
    /\ reported = FALSE
    /\ key = "post_url"
    /\ inp = <<>>
    /\ out = <<>>
    /\ out2 = <<>>

\* the driver comes upon one more raw unit (scraper.py:534)
Extract ==
    /\ pc = "start"
    /\ Len(units) < MaxUnits
    /\ \E unit \in RawUnits : units' = Numbered(units, unit)
    /\ UNCHANGED <<pc, adapted, posts, keywords, days_limit, now, isoZ, stored, logLines, reported, direct>>

\* main.py:166: the driver's units, adapted, become posts
Scrape ==
    /\ pc = "start"
    /\ posts' = AdaptAll(units, now, isoZ)
    /\ adapted' = posts'
    /\ pc' = "scraped"
    /\ UNCHANGED <<config, stored, logLines, reported, direct>>

\* main.py:168-177: nothing scraped, report the paths and return
NoPosts ==
    /\ pc = "scraped"
    /\ posts = <<>>
    /\ reported' = TRUE
    /\ pc' = "done"
    /\ UNCHANGED <<config, adapted, posts, stored, logLines, direct>>

\* main.py:181-184
FilterByDate ==
    /\ pc = "scraped"
    /\ posts # <<>>
    /\ LET r == filter_posts_by_date(posts, days_limit, now, isoZ) IN
         /\ ~r.raised
         /\ posts' = IF days_limit > 0 THEN r.posts ELSE posts
    /\ pc' = "filtered"
    /\ UNCHANGED <<config, adapted, stored, logLines, reported, direct>>

\* main.py:183 raises, main.py:253-257 catches: the run ends there
FilterRaises ==
    /\ pc = "scraped"
    /\ posts # <<>>
    /\ days_limit > 0
    /\ filter_posts_by_date(posts, days_limit, now, isoZ).raised
    /\ pc' = "aborted"
    /\ UNCHANGED <<config, adapted, posts, stored, logLines, reported, direct>>

\* main.py:186-194
Deduplicate ==
    /\ pc = "filtered"
    /\ posts' = deduplicate_posts(posts, "post_url")
    /\ pc' = "deduped"
    /\ UNCHANGED <<config, adapted, stored, logLines, reported, direct>>

\* main.py:196-198
ScoreAndRank ==
    /\ pc = "deduped"
    /\ posts' = score_and_rank_posts(posts, keywords)
    /\ pc' = "scored"
    /\ UNCHANGED <<config, adapted, stored, logLines, reported, direct>>

\* main.py:200-201
Clean ==
    /\ pc = "scored"
    /\ posts' = [i \in 1..Len(posts) |-> clean_post_data(posts[i], now, isoZ)]
    /\ pc' = "cleaned"
    /\ UNCHANGED <<config, adapted, stored, logLines, reported, direct>>

\* Save without the test of main.py:210 (and of storage.py:66)
Save_Unguarded ==
    /\ pc = "cleaned"
    /\ stored' = Append(stored, posts)
    /\ reported' = (posts = <<>>)
    /\ pc' = "saved"
    /\ UNCHANGED <<config, adapted, posts, logLines, direct>>

\* main.py:203-218: save_posts is called with a non-empty list; for an empty
\* one the paths are printed instead
Save ==
    /\ pc = "cleaned"
    /\ stored' = IF posts # <<>> THEN Append(stored, posts) ELSE stored
    /\ reported' = (posts = <<>>)
    /\ pc' = "saved"
    /\ UNCHANGED <<config, adapted, posts, logLines, direct>>

\* main.py:220-248: the log line, then the summary with the paths
WriteLog ==
    /\ pc = "saved"
    /\ logLines' = logLines + 1
    /\ reported' = TRUE
    /\ pc' = "done"
    /\ UNCHANGED <<config, adapted, posts, stored, direct>>

Next ==
    \/ Extract
    \/ Scrape
    \/ NoPosts
    \/ FilterByDate
    \/ FilterRaises
    \/ Deduplicate
    \/ ScoreAndRank
    \/ Clean
    \/ Save
    \/ WriteLog

Spec == Init /\ [][Next]_vars

(***************************************************************************)
(* Claims about the run of main()                                          *)
(***************************************************************************)
\* the positions of posts holding the record created from unit uid
Holding(list, uid) == {j \in 1..Len(list) : list[j].uid = uid}

\* the record the adapter created from unit uid
Created(uid) == adapted[CHOOSE i \in 1..Len(adapted) : adapted[i].uid = uid]

\* the run has passed the date filter without raising
PastFilter == pc \in {"filtered", "deduped", "scored", "cleaned", "saved"} \/ (pc = "done" /\ logLines > 0)

PastClean == pc \in {"cleaned", "saved"} \/ (pc = "done" /\ logLines > 0)

\* C1: whatever form each record's date_posted takes, a failure on one
\* record only drops it or substitutes a default: the run never aborts, and
\* a run that ends has handed its surviving records to storage.
C1_RunNeverAborts ==
    /\ pc # "aborted"
    /\ (pc = "done" /\ adapted # <<>>) => (logLines = 1 /\ (posts # <<>> => stored = <<posts>>))

\* a date_posted that is a timestamp, or a text that parses, and lies
\* strictly before the cutoff
DatedBefore(post, cutoff) ==
    LET d == GetDate(post) IN
    /\ d.kind = "datetime" \/ (d.kind = "str" /\ d.ok)
    /\ d.t < cutoff

NotDatedBefore(post) == ~DatedBefore(post, now - days_limit)

\* C2: with days_limit > 0 the date filter excludes a record exactly when its
\* date_posted is a timestamp, or a text that parses (with or without a UTC
\* marker or offset), strictly before now - days_limit; all others are kept.
C2_ExcludesExactlyOldDates ==
    (pc = "filtered" /\ days_limit > 0) => posts = SelectSeq(adapted, NotDatedBefore)

\* the records that entered the pipeline with post_url u, by position
SameUrl(u) == {i \in 1..Len(adapted) : Get(adapted[i], "post_url") = u}

EnteringUrls == {Get(adapted[i], "post_url") : i \in 1..Len(adapted)} \ {<<>>}

FilterKeeps(post) ==
    days_limit <= 0 \/ FilterOutcome(post, now - days_limit, isoZ) = "keep"

First(S) == CHOOSE i \in S : \A j \in S : i <= j

OutputOf(S) == {j \in 1..Len(posts) : \E i \in S : posts[j].uid = adapted[i].uid}

\* the output holds, for the records at the positions S, exactly one record:
\* the one at position i, with its URL made absolute and its own text's score
OnlyOutput(S, i) ==
    /\ Cardinality(OutputOf(S)) = 1
    /\ \A j \in OutputOf(S) :
         /\ posts[j].uid = adapted[i].uid
         /\ posts[j].post_url = IF StartsWith(adapted[i].post_url, HttpPrefix)
                                THEN adapted[i].post_url ELSE BaseUrl \o adapted[i].post_url
         /\ posts[j].score = calculate_relevance_score(Get(adapted[i], "text"), keywords)

\* C7 as stated, read in the claim's favour (nothing is asked where the date
\* filter left none of them): records that share the same raw post_url yield
\* exactly one output record, the first in input order, with the absolute
\* form of its post_url and the score of its own text.
C7_FirstOfEachUrl ==
    PastClean => \A u \in EnteringUrls :
        OutputOf(SameUrl(u)) # {} => OnlyOutput(SameUrl(u), First(SameUrl(u)))

\* C7 amended: of the records that share the same non-empty post_url, the
\* output holds none when the date filter keeps none of them, and otherwise
\* exactly one: the first in input order among those the date filter keeps,
\* with the absolute form of its post_url and the score of its own text.
C7_FirstKeptOfEachUrl ==
    PastClean => \A u \in EnteringUrls :
        LET kept == {i \in SameUrl(u) : FilterKeeps(adapted[i])} IN
        IF kept = {} THEN OutputOf(SameUrl(u)) = {}
        ELSE OnlyOutput(SameUrl(u), First(kept))

\* C7 witness: the two records of scenario 1 have been through the pipeline
\* and one record with the absolute URL and score 1 was handed to storage
C7_Witness ==
    /\ pc = "saved"
    /\ Len(units) = 2
    /\ units[1] = [Unit("mapping", {"post_url", "text"}, UrlRel1, TextHiring, NoDate) EXCEPT !.uid = 1]
    /\ units[2] = [Unit("mapping", {"post_url", "text"}, UrlRel1, TextDup, NoDate) EXCEPT !.uid = 2]
    /\ Len(posts) = 1
    /\ posts[1].uid = 1
    /\ posts[1].post_url = UrlAbs1
    /\ posts[1].score = 1
    /\ stored = <<posts>>

\* every record of the list has the post_url F maps its created post_url to
UrlsAre(list, F(_)) ==
    \A j \in 1..Len(list) :
        /\ list[j].post_url = F(Created(list[j].uid).post_url)
        /\ ("post_url" \in list[j].keys) = ("post_url" \in Created(list[j].uid).keys)

SameUrlAsCreated(u) == u

AbsoluteOfCreated(u) == IF u # <<>> /\ ~StartsWith(u, HttpPrefix) THEN BaseUrl \o u ELSE u

\* C9 as stated: the post_url a record has when the adapter creates it is
\* the post_url it has at every later stage and when handed to storage.
C9_PostUrlNeverChanges ==
    /\ UrlsAre(posts, SameUrlAsCreated)
    /\ \A k \in 1..Len(stored) : UrlsAre(stored[k], SameUrlAsCreated)

\* C9 amended: the date filter, dedupe, the scorer and the sort leave every
\* record's post_url as the adapter created it; the cleaner prefixes the base
\* URL to a non-empty post_url that does not start with "http" and leaves any
\* other unchanged, and storage is handed the cleaner's value.
C9_PostUrlChangesOnlyInCleaner ==
    /\ ~PastClean => UrlsAre(posts, SameUrlAsCreated)
    /\ PastClean => UrlsAre(posts, AbsoluteOfCreated)
    /\ \A k \in 1..Len(stored) : UrlsAre(stored[k], AbsoluteOfCreated)

\* C9 witness: storage was handed a record whose post_url the cleaner made
\* absolute and one whose post_url no stage changed
C9_Witness ==
    /\ pc = "saved"
    /\ stored = <<posts>>
    /\ \E j \in 1..Len(posts) : Created(posts[j].uid).post_url = UrlRel1 /\ posts[j].post_url = UrlAbs1
    /\ \E j \in 1..Len(posts) : Created(posts[j].uid).post_url = UrlAbs1 /\ posts[j].post_url = UrlAbs1

\* a raw unit with no post_url and empty text
Invalid(unit) == Get(unit, "post_url") = <<>> /\ Get(unit, "text") = <<>>

InvalidUnits(shapes) == {i \in 1..Len(units) : Invalid(units[i]) /\ units[i].shape \in shapes}

AllShapes == {"mapping", "soup", "element"}

Absent(list, uid) == Holding(list, uid) = {}

\* the adapter returns None for the units S and they are in no list
Discarded(S) ==
    \A i \in S :
        /\ Adapter(units[i], now, isoZ) = <<>>
        /\ Absent(adapted, i) /\ Absent(posts, i)
        /\ \A k \in 1..Len(stored) : Absent(stored[k], i)

NodeUnitsAt == {i \in 1..Len(units) : units[i].shape \in {"soup", "element"}}

\* C11: on the structured-node path the adapter returns null only when the
\* node has neither a permalink nor non-empty text: a node with a permalink
\* and empty text, and a node with text and no permalink, each yield a record.
C11_NodeNullOnlyIfBothAbsent ==
    pc # "start" => \A i \in NodeUnitsAt : Absent(adapted, i) <=> Invalid(units[i])

\* the nodes with no permalink and a non-empty text
TextOnlyNodes == {i \in NodeUnitsAt : Get(units[i], "post_url") = <<>> /\ Get(units[i], "text") # <<>>}

PlaceholderUrl(text) == BaseUrl \o FeedPostPath \o Md5HexPrefix(text)

\* C12: a structured node with no permalink and non-empty text yields a
\* record whose post_url is the placeholder URL embedding the 12-character
\* hash of its text, so every record made from a node has a non-empty
\* post_url and two such nodes with identical text get identical post_urls.
C12_TextOnlyNodeGetsHashUrl ==
    pc # "start" =>
    /\ \A i \in TextOnlyNodes :
         /\ ~Absent(adapted, i)
         /\ Created(i).post_url = PlaceholderUrl(units[i].text)
    /\ \A i \in NodeUnitsAt : ~Absent(adapted, i) => Get(Created(i), "post_url") # <<>>
    /\ \A i, j \in TextOnlyNodes :
         (units[i].text = units[j].text /\ ~Absent(adapted, i) /\ ~Absent(adapted, j))
            => Created(i).post_url = Created(j).post_url

\* C17: in every record the pipeline outputs, text_snippet is the snippet of
\* that record's text; a text_snippet the raw unit carried is never kept,
\* also when the raw mapping has a text_snippet and no text field.
C17_SnippetIsFunctionOfText ==
    /\ PastClean => \A j \in 1..Len(posts) :
         Get(posts[j], "text_snippet") = extract_text_snippet(Get(posts[j], "text"), SnippetMaxLength)
    /\ \A k \in 1..Len(stored) : \A j \in 1..Len(stored[k]) :
         Get(stored[k][j], "text_snippet") = extract_text_snippet(Get(stored[k][j], "text"), SnippetMaxLength)

\* C24: every run of main() appends exactly one line to the log, also a
\* run that ends with zero records (the scrape returned nothing, or a later
\* stage removed every record).
C24_OneLogLinePerRun ==
    /\ logLines <= 1
    /\ pc = "done" => logLines = 1

\* C25: when the list of records becomes empty at any stage, the run ends
\* normally without raising, storage is never handed an empty list, and the
\* paths the output would have gone to are reported.
C25_EmptyResultEndsNormally ==
    /\ \A k \in 1..Len(stored) : stored[k] # <<>>
    /\ (pc # "start" /\ posts = <<>>) =>
         /\ pc # "aborted"
         /\ stored = <<>>
         /\ pc = "done" => reported
         /\ pc # "done" => ENABLED Next

\* C25 witness: a run whose records the date filter all removed has ended,
\* with the paths reported and nothing handed to storage
C25_Witness ==
    /\ pc = "done"
    /\ adapted # <<>>
    /\ posts = <<>>
    /\ stored = <<>>
    /\ reported
    /\ logLines = 1

\* C28: in the list handed to storage no two records have the same non-empty
\* post_url, whatever the raw input, also when it mixes a relative and an
\* absolute form of the same permalink.
C28_StoredUrlsDistinct ==
    \A k \in 1..Len(stored) : \A a, b \in 1..Len(stored[k]) :
        (a # b /\ Get(stored[k][a], "post_url") # <<>>)
            => Get(stored[k][a], "post_url") # Get(stored[k][b], "post_url")

\* C29: in every record the run outputs, score is the score of the record's
\* final, cleaned text for the keyword list, also for a multi-word keyword
\* whose words a newline or repeated whitespace separates in the raw text.
C29_ScoreOfCleanedText ==
    /\ PastClean => \A j \in 1..Len(posts) :
         posts[j].score = calculate_relevance_score(Get(posts[j], "text"), keywords)
    /\ \A k \in 1..Len(stored) : \A j \in 1..Len(stored[k]) :
         stored[k][j].score = calculate_relevance_score(Get(stored[k][j], "text"), keywords)

(***************************************************************************)
(* Direct calls of deduplicate_posts(posts, key)                           *)
(***************************************************************************)
\* longest list handed to deduplicate_posts
MaxDedupe == 4

UrlA == <<"a">>

UrlB == <<"b">>

UrlC == <<"c">>

AuthorRel == <<"/", "i", "n", "/", "x">>

TextHiringNow == <<"H", "i", "r", "i", "n", "g", " ", "n", "o", "w">>

\* two texts that agree on their first KeyPrefixLength characters only
LongA == [i \in 1..KeyPrefixLength |-> "x"] \o <<"a">>

LongB == [i \in 1..KeyPrefixLength |-> "x"] \o <<"b">>

DedupeRecords ==
    { Post(0, {"post_url", "text"}, u, <<>>, TextDup, NoDate) : u \in {UrlA, UrlB, UrlC} }
    \cup { Post(0, {"text"}, <<>>, <<>>, t, NoDate) : t \in {<<>>, TextHiringNow, LongA, LongB} }
    \cup { Post(0, {"author_url", "text"}, <<>>, AuthorRel, LongA, NoDate),
           Post(0, {"post_url"}, <<>>, <<>>, <<>>, NoDate) }

InitDedupe ==
    /\ pc = "call"
    /\ inp = <<>>
    /\ key \in {"post_url", "author_url"}
    /\ out = <<>>
    /\ out2 = <<>>
    /\ units = <<>>
    /\ adapted = <<>>
    /\ posts = <<>>
    /\ keywords = <<KwHiring>>
    /\ days_limit = 0
    /\ now = ClockStart
    /\ isoZ = TRUE
    /\ stored = <<>>
    /\ logLines = 0
    /\ reported = FALSE

main == <<units, adapted, posts, keywords, days_limit, now, isoZ, stored, logLines, reported>>

\* the caller puts one more record on the list
DedupeArg ==
    /\ pc = "call"
    /\ Len(inp) < MaxDedupe
    /\ \E post \in DedupeRecords : inp' = Numbered(inp, post)
    /\ UNCHANGED <<main, pc, key, out, out2>>

DedupeCall ==
    /\ pc = "call"
    /\ out' = deduplicate_posts(inp, key)
    /\ pc' = "returned"
    /\ UNCHANGED <<main, key, inp, out2>>

DedupeAgain ==
    /\ pc = "returned"
    /\ out2' = deduplicate_posts(out, key)
    /\ pc' = "again"
    /\ UNCHANGED <<main, key, inp, out>>

NextDedupe ==
    \/ DedupeArg
    \/ DedupeCall
    \/ DedupeAgain

SpecDedupe == InitDedupe /\ [][NextDedupe]_vars

Returned == pc \in {"returned", "again"}

\* the record at position j of the input has an empty key_field value and a text
TextKeyed(j) == Get(inp[j], key) = <<>> /\ Get(inp[j], "text") # <<>>

\* record j was dropped as a duplicate exactly when an earlier record with an
\* empty key_field value has the same Ident
DuplicateIffSame(Ident(_)) ==
    \A j \in 1..Len(inp) : TextKeyed(j) =>
        (Absent(out, j) <=> \E i \in 1..(j - 1) : TextKeyed(i) /\ Ident(inp[i]) = Ident(inp[j]))

FullText(post) == Get(post, "text")

FullTextOrPrefix(post) ==
    IF key = "post_url" THEN Get(post, "text") ELSE Prefix(Get(post, "text"), KeyPrefixLength)

\* C3 as stated: for every key_field, two records whose key_field value is
\* empty are duplicates if and only if their full texts are identical.
C3_FullTextForEveryKey == Returned => DuplicateIffSame(FullText)

\* C3 amended: dedupe resolves the key of a record whose key_field value is
\* empty as the hash of its full text only when key_field is "post_url", and
\* as the hash of the first 50 characters of its text for any other
\* key_field: two such records are duplicates if and only if their full
\* texts are identical (key_field "post_url") or their texts agree on the
\* first 50 characters (any other key_field).
C3_FullTextForPostUrlOnly == Returned => DuplicateIffSame(FullTextOrPrefix)

\* C3 witness: keyed on post_url, the second of two records with no post_url
\* and identical text was dropped and two whose texts differ after 50
\* characters were both kept
C3_Witness ==
    /\ pc = "returned"
    /\ key = "post_url"
    /\ \E i, j \in 1..Len(inp) :
         /\ i < j /\ TextKeyed(i) /\ TextKeyed(j)
         /\ inp[i].text = TextHiringNow /\ inp[j].text = TextHiringNow
         /\ ~Absent(out, i) /\ Absent(out, j)
    /\ \E i, j \in 1..Len(inp) :
         /\ TextKeyed(i) /\ TextKeyed(j)
         /\ inp[i].text = LongA /\ inp[j].text = LongB
         /\ ~Absent(out, i) /\ ~Absent(out, j)

\* list holds records of orig, unchanged, in the order they have in orig
Subsequence(list, orig) ==
    /\ \A a \in 1..Len(list) : list[a].uid \in 1..Len(orig) /\ list[a] = orig[list[a].uid]
    /\ \A a, b \in 1..Len(list) : a < b => list[a].uid < list[b].uid

\* C4: dedupe returns a subsequence of its input in first-occurrence order,
\* drops every record whose resolved key equals the key of an earlier record,
\* and no two kept records share a resolved key.
C4_FirstOccurrencesKept ==
    Returned =>
    /\ Subsequence(out, inp)
    /\ \A j \in 1..Len(inp) : ResolveKey(inp[j], key) # <<>> =>
         (Absent(out, j) <=> \E i \in 1..(j - 1) : ResolveKey(inp[i], key) = ResolveKey(inp[j], key))
    /\ \A a, b \in 1..Len(out) :
         (a # b /\ ResolveKey(out[a], key) # <<>>) => ResolveKey(out[a], key) # ResolveKey(out[b], key)

\* C4 witness: keys [a, b, a, c] gave [a, b, c]
C4_Witness ==
    /\ pc = "returned"
    /\ key = "post_url"
    /\ [i \in 1..Len(inp) |-> inp[i].post_url] = <<UrlA, UrlB, UrlA, UrlC>>
    /\ [i \in 1..Len(out) |-> out[i].post_url] = <<UrlA, UrlB, UrlC>>

\* the record at position j of the input has an empty key_field value and no text
Keyless(j) == Get(inp[j], key) = <<>> /\ Get(inp[j], "text") = <<>>

\* C5: a record with an empty key_field value and empty text is always kept,
\* however many keyless records precede it, in its input position relative
\* to the other kept records.
C5_KeylessAlwaysKept ==
    Returned =>
    /\ \A j \in 1..Len(inp) : Keyless(j) => Cardinality(Holding(out, j)) = 1
    /\ \A a, b \in 1..Len(out) : a < b => out[a].uid < out[b].uid

\* C5 witness: three keyless records, a kept record among them, all returned
C5_Witness ==
    /\ pc = "returned"
    /\ Cardinality({j \in 1..Len(inp) : Keyless(j)}) = 3
    /\ \E j \in 1..Len(inp) : ~Keyless(j)
    /\ out = inp

\* C6: dedupe is idempotent, for keyed, text-keyed and keyless records mixed
\* and every key_field.
C6_DedupeIdempotent == pc = "again" => out2 = out

\* C6 witness: a list of keyed, text-keyed and keyless records that lost a
\* duplicate was deduplicated again
C6_Witness ==
    /\ pc = "again"
    /\ Len(out) < Len(inp)
    /\ \E j \in 1..Len(inp) : Get(inp[j], key) # <<>>
    /\ \E j \in 1..Len(inp) : TextKeyed(j)
    /\ \E j \in 1..Len(inp) : Keyless(j)

(***************************************************************************)
(* Direct calls of score_and_rank_posts(posts, keywords)                   *)
(***************************************************************************)
\* longest list handed to score_and_rank_posts
MaxRank == 4

Space == <<" ">>

\* texts that hold the keyword 0, 1, 2 and 3 times
RankTexts == { <<>>, KwHiring, KwHiring \o Space \o KwHiring,
               TextHiringNow \o Space \o KwHiring \o Space \o KwHiring }

RankRecords == { Post(0, {"text"}, <<>>, <<>>, t, NoDate) : t \in RankTexts }

InitRank ==
    /\ pc = "rank"
    /\ inp = <<>>
    /\ keywords = <<KwHiring>>
    /\ key = "post_url"
    /\ out = <<>>
    /\ out2 = <<>>
    /\ units = <<>>
    /\ adapted = <<>>
    /\ posts = <<>>
    /\ days_limit = 0
    /\ now = ClockStart
    /\ isoZ = TRUE
    /\ stored = <<>>
    /\ logLines = 0
    /\ reported = FALSE

\* the caller puts one more record on the list
RankArg ==
    /\ pc = "rank"
    /\ Len(inp) < MaxRank
    /\ \E post \in RankRecords : inp' = Numbered(inp, post)
    /\ UNCHANGED <<main, pc, key, out, out2>>

Rank ==
    /\ pc = "rank"
    /\ out' = score_and_rank_posts(inp, keywords)
    /\ pc' = "ranked"
    /\ UNCHANGED <<main, key, inp, out2>>

NextRank ==
    \/ RankArg
    \/ Rank

SpecRank == InitRank /\ [][NextRank]_vars

\* C8: ranking orders the records by score, descending, and is stable: two
\* records with equal score keep the relative order they had before ranking.
C8_RankStableDescending ==
    pc = "ranked" =>
    /\ Len(out) = Len(inp)
    /\ \A j \in 1..Len(inp) : Cardinality(Holding(out, j)) = 1
    /\ \A a \in 1..Len(out) :
         out[a].score = calculate_relevance_score(Get(inp[out[a].uid], "text"), keywords)
    /\ \A a, b \in 1..Len(out) : a < b =>
         \/ out[a].score > out[b].score
         \/ out[a].score = out[b].score /\ out[a].uid < out[b].uid

\* C8 witness: scores [3, 1, 3, 2] gave first-3, second-3, 2, 1
C8_Witness ==
    /\ pc = "ranked"
    /\ Len(out) = 4
    /\ [i \in 1..4 |-> calculate_relevance_score(inp[i].text, keywords)] = <<3, 1, 3, 2>>
    /\ [i \in 1..4 |-> out[i].uid] = <<1, 3, 4, 2>>
    /\ [i \in 1..4 |-> out[i].score] = <<3, 3, 2, 1>>

(***************************************************************************)
(* parser.py: parse_relative_date, and the date a node's time element      *)
(* gives.  Here a datetime is a record of calendar fields, as              *)
(* datetime.replace works on them; the years have 365 days.                *)
(***************************************************************************)
DigitValue == ("0" :> 0) @@ ("1" :> 1) @@ ("2" :> 2) @@ ("3" :> 3) @@ ("4" :> 4) @@ ("5" :> 5) @@ ("6" :> 6) @@ ("7" :> 7) @@ ("8" :> 8) @@ ("9" :> 9)

\* int(x) of a string of digits
RECURSIVE ToInt(_)
ToInt(x) == IF x = <<>> THEN 0 ELSE 10 * ToInt(SubSeq(x, 1, Len(x) - 1)) + DigitValue[x[Len(x)]]

DaysInMonth == <<31, 28, 31, 30, 31, 30, 31, 31, 30, 31, 30, 31>>

Calendar(year, month, day, hour) == [year |-> year, month |-> month, day |-> day, hour |-> hour]

\* now.replace(field=value): [ok, value]; ok = FALSE is a ValueError
replace(dt, field, value) ==
    LET valid == IF field = "hour" THEN value \in 0..23
                 ELSE IF field = "day" THEN value \in 1..DaysInMonth[dt.month]
                 ELSE value \in 1..12 /\ dt.day <= DaysInMonth[value]
    IN  [ok |-> valid, value |-> IF valid THEN [dt EXCEPT ![field] = value] ELSE dt]

\* the last position of the run of characters of class that starts at i
\* (i - 1 when s[i] is not of the class)
RunEnd(s, i, class) ==
    LET stops == {j \in i..Len(s) : s[j] \notin class}
    IN  IF stops = {} THEN Len(s) ELSE (CHOOSE j \in stops : \A k \in stops : j <= k) - 1

\* does (\d+)\s*word match s from position i on
NumberThenWordAt(s, i, word) ==
    /\ s[i] \in Digits
    /\ LET k == RunEnd(s, RunEnd(s, i, Digits) + 1, Whitespace)
       IN  StartsWith(SubSeq(s, k + 1, Len(s)), word)

\* re.search(r'(\d+)\s*word', s): <<group(1)>> of the leftmost match, <<>> when none
re_search(s, word) ==
    LET hits == {i \in 1..Len(s) : NumberThenWordAt(s, i, word)}
    IN  IF hits = {} THEN <<>>
        ELSE LET i == CHOOSE h \in hits : \A g \in hits : h <= g
             IN  <<SubSeq(s, i, RunEnd(s, i, Digits))>>

HourWord == <<"h", "o", "u", "r">>

DayWord == <<"d", "a", "y">>

WeekWord == <<"w", "e", "e", "k">>

MonthWord == <<"m", "o", "n", "t", "h">>

\* parser.py:112-117: the patterns in the order they are tried, each with the
\* field its lambda replaces and the number of that field's units per match
Patterns ==
    << [word |-> HourWord, field |-> "hour", times |-> 1],
       [word |-> DayWord, field |-> "day", times |-> 1],
       [word |-> WeekWord, field |-> "day", times |-> 7],
       [word |-> MonthWord, field |-> "month", times |-> 1] >>

\* parser.py:119-127: the loop from pattern i on; a ValueError of replace is
\* swallowed and the next pattern is tried
RECURSIVE TryPatterns(_, _, _)
TryPatterns(date_text, clock, i) ==
    IF i > Len(Patterns) THEN clock
    ELSE LET match == re_search(date_text, Patterns[i].word) IN
         IF match = <<>> THEN TryPatterns(date_text, clock, i + 1)
         ELSE LET r == replace(clock, Patterns[i].field,
                               clock[Patterns[i].field] - ToInt(match[1]) * Patterns[i].times)
              IN  IF r.ok THEN r.value ELSE TryPatterns(date_text, clock, i + 1)

\* <<datetime>>, or <<>> for None
parse_relative_date(date_text, clock) ==
    IF date_text = <<>> THEN <<>>
    ELSE <<TryPatterns(Strip(Lower(date_text)), clock, 1)>>

\* the date_posted of the record made from a node whose time element has the
\* datetime attribute attr (kind "none": no attribute, "bad": one that does
\* not parse, "ok": one that denotes value) and the text date_text
\* (parser.py:57-68, 83 for a soup node; scraper.py:588-607, 665 for an element)
time_element_date(shape, attr, date_text, clock) ==
    LET parsed   == IF attr.kind = "ok" THEN <<attr.value>> ELSE <<>>
        fallback == IF shape = "soup"
                    THEN IF attr.kind = "none" THEN parse_relative_date(date_text, clock) ELSE parsed
                    ELSE IF parsed = <<>> /\ date_text # <<>>
                         THEN parse_relative_date(date_text, clock) ELSE parsed
    IN  IF fallback = <<>> THEN clock ELSE fallback[1]

(***************************************************************************)
(* Direct calls of the time-element step                                   *)
(***************************************************************************)
Ago == <<"s", " ", "a", "g", "o">>

JustNow == <<"J", "u", "s", "t", " ", "n", "o", "w">>

FiveMinutesAgo == <<"5", " ", "m", "i", "n", "u", "t", "e", "s", " ", "a", "g", "o">>

RelNumbers == { <<"1">>, <<"2">>, <<"5">>, <<"3", "0">> }

RelUnits == { HourWord, DayWord, WeekWord, MonthWord }

RelTexts == { n \o Space \o u \o Ago : n \in RelNumbers, u \in RelUnits } \cup { <<>>, JustNow, FiveMinutesAgo }

\* clock values early and late in the day, the month and the year
Clocks == { Calendar(1, m, d, h) : m \in {1, 3, 12}, d \in {1, 15, 31}, h \in {0, 5, 23} }

\* the datetime attribute of the time element
TimeAttrs == [kind : {"none", "bad", "ok"}, value : {Calendar(1, 1, 1, 0)}]

InitRelDate ==
    /\ pc = "time"
    /\ inp \in [shape : {"soup", "element"}, attr : TimeAttrs,
                date_text : RelTexts, clock : Clocks]
    /\ out = <<>>
    /\ out2 = <<>>
    /\ key = "post_url"
    /\ units = <<>>
    /\ adapted = <<>>
    /\ posts = <<>>
    /\ keywords = <<KwHiring>>
    /\ days_limit = 0
    /\ now = ClockStart
    /\ isoZ = TRUE
    /\ stored = <<>>
    /\ logLines = 0
    /\ reported = FALSE

TimeElement ==
    /\ pc = "time"
    /\ out' = time_element_date(inp.shape, inp.attr, inp.date_text, inp.clock)
    /\ pc' = "dated"
    /\ UNCHANGED <<main, key, inp, out2>>

NextRelDate == TimeElement

SpecRelDate == InitRelDate /\ [][NextRelDate]_vars

\* the days of the year before month m
RECURSIVE DaysBefore(_)
DaysBefore(m) == IF m = 1 THEN 0 ELSE DaysBefore(m - 1) + DaysInMonth[m - 1]

\* a datetime as a number of hours
InHours(dt) == ((dt.year * 365 + DaysBefore(dt.month) + dt.day - 1) * 24) + dt.hour

MonthsOf(dt) == dt.year * 12 + dt.month - 1

\* dt is clock minus n of the unit word names
IsAgo(dt, clock, n, word) ==
    IF word = MonthWord
    THEN /\ MonthsOf(dt) = MonthsOf(clock) - n
         /\ dt.day = Min(clock.day, DaysInMonth[dt.month])
         /\ dt.hour = clock.hour
    ELSE InHours(dt) = InHours(clock) - n * (IF word = HourWord THEN 1 ELSE IF word = DayWord THEN 24 ELSE 168)

\* C13: when the time element has no usable machine-readable attribute and
\* its text is "N hours/days/weeks/months ago", date_posted is the current
\* time minus N of that unit, for every N and clock value, also when N is
\* larger than the current hour, day of month or month number; only
\* unparseable or absent text gives the current time.
C13_RelativePhraseSubtracted ==
    (pc = "dated" /\ inp.attr.kind \in {"none", "bad"}) =>
    /\ \A n \in RelNumbers, u \in RelUnits :
         inp.date_text = n \o Space \o u \o Ago => IsAgo(out, inp.clock, ToInt(n), u)
    /\ inp.date_text \in {<<>>, JustNow, FiveMinutesAgo} => out = inp.clock

(***************************************************************************)
(* Direct calls of clean_post_data(post)                                   *)
(***************************************************************************)
\* a relative path without a leading slash
UrlBare == <<"p", "o", "s", "t", "s", "/", "1">>

\* a value that starts with "http" and has neither scheme nor host
UrlHttpish == <<"h", "t", "t", "p", "x">>

AuthorBare == <<"i", "n", "/", "x">>

TextMessy == <<" ", " ", "W", "e", " ", " ", "a", "r", "e", "\n", "h", "i", "r", "i", "n", "g", " ">>

\* a text longer than SnippetMaxLength
LongText == [i \in 1..(SnippetMaxLength + 30) |-> IF i % 7 = 0 THEN " " ELSE "w"]

CleanDates == {NoDate} \cup DateForms

\* dicts with each field missing, empty or set, and each form of date_posted
CleanRecords ==
    { [Post(1, (IF u[1] THEN {"post_url"} ELSE {}) \cup (IF a[1] THEN {"author_url"} ELSE {})
               \cup (IF t[1] THEN {"text"} ELSE {}) \cup (IF s[1] THEN {"text_snippet"} ELSE {})
               \cup (IF d.kind # "none" THEN {"date_posted"} ELSE {}),
            u[2], a[2], t[2], d) EXCEPT !.text_snippet = s[2]] :
        u \in {<<FALSE, <<>>>>, <<TRUE, <<>>>>, <<TRUE, UrlRel1>>, <<TRUE, UrlBare>>,
               <<TRUE, UrlAbs1>>, <<TRUE, UrlHttpish>>},
        a \in {<<FALSE, <<>>>>, <<TRUE, AuthorRel>>, <<TRUE, AuthorBare>>},
        t \in {<<FALSE, <<>>>>, <<TRUE, <<>>>>, <<TRUE, TextMessy>>, <<TRUE, LongText>>},
        s \in {<<FALSE, <<>>>>, <<TRUE, TextDup>>},
        d \in CleanDates }

InitClean ==
    /\ pc = "clean"
    /\ inp = <<>>
    /\ isoZ \in BOOLEAN
    /\ out = <<>>
    /\ out2 = <<>>
    /\ key = "post_url"
    /\ units = <<>>
    /\ adapted = <<>>
    /\ posts = <<>>
    /\ keywords = <<KwHiring>>
    /\ days_limit = 0
    /\ now = ClockStart
    /\ stored = <<>>
    /\ logLines = 0
    /\ reported = FALSE

\* the caller has a record to clean
CleanArg ==
    /\ pc = "clean"
    /\ inp = <<>>
    /\ \E post \in CleanRecords : inp' = <<post>>
    /\ UNCHANGED <<main, pc, key, out, out2>>

CleanCall ==
    /\ pc = "clean"
    /\ inp # <<>>
    /\ out' = clean_post_data(inp[1], now, isoZ)
    /\ pc' = "cleaned"
    /\ UNCHANGED <<main, key, inp, out2>>

CleanAgain ==
    /\ pc = "cleaned"
    /\ out2' = clean_post_data(out, now, isoZ)
    /\ pc' = "again"
    /\ UNCHANGED <<main, key, inp, out>>

NextClean ==
    \/ CleanArg
    \/ CleanCall
    \/ CleanAgain

SpecClean == InitClean /\ [][NextClean]_vars

Cleaned == pc \in {"cleaned", "again"}

HttpScheme == <<"h", "t", "t", "p", ":", "/", "/">>

HttpsScheme == <<"h", "t", "t", "p", "s", ":", "/", "/">>

\* u begins with a scheme and a host
HasSchemeAndHost(u) ==
    \E scheme \in {HttpScheme, HttpsScheme} :
        /\ StartsWith(u, scheme)
        /\ Len(u) > Len(scheme)
        /\ u[Len(scheme) + 1] \in WordChars

\* the well-formed absolute URL of a value that lacks a scheme
OnPlatform(v) == IF StartsWith(v, <<"/">>) THEN BaseUrl \o v ELSE BaseUrl \o <<"/">> \o v

\* C14: after clean every non-empty post_url and author_url is absolute: a
\* value lacking a scheme is prefixed with the platform base URL so that the
\* result is a well-formed absolute URL (also a relative path without a
\* leading slash), and a value is unchanged only when it already has a
\* scheme and host.
C14_UrlsAbsoluteAfterClean ==
    Cleaned => \A k \in {"post_url", "author_url"} :
        LET v == Get(inp[1], k)
            r == Get(out, k)
        IN  /\ r # <<>> => HasSchemeAndHost(r)
            /\ (v # <<>> /\ ~HasSchemeAndHost(v)) => r = OnPlatform(v)
            /\ (v # <<>> /\ HasSchemeAndHost(v)) => r = v

\* the timestamp a text that parses denotes: "Z" as the offset "+00:00"
Denoted(d) == Date("datetime", TRUE, d.t, IF d.tz = "naive" THEN "naive" ELSE "utc")

\* C15: clean converts a textual date_posted by structured parsing that
\* accepts a trailing "Z" and gives it the timestamp of the offset "+00:00";
\* only text that fails to parse becomes the current time, and a date_posted
\* that is already a timestamp is left unchanged.
C15_CleanParsesUtcMarker ==
    Cleaned =>
        LET d == GetDate(inp[1]) IN
        /\ (d.kind = "str" /\ d.ok) => GetDate(out) = Denoted(d)
        /\ (d.kind = "str" /\ ~d.ok) => GetDate(out) = DatetimeNaive(now)
        /\ d.kind \in {"datetime", "none"} => GetDate(out) = d

\* C16: clean is idempotent, the clock held fixed: cleaning a cleaned record
\* changes nothing, whatever its URLs, text, date_posted and missing fields.
C16_CleanIdempotent == pc = "again" => out2 = out

\* C16 witness: a record with a relative URL, a text to normalize and a
\* textual date, which clean changed in all three, was cleaned twice
C16_Witness ==
    /\ pc = "again"
    /\ inp[1].post_url = UrlRel1 /\ out.post_url = UrlAbs1
    /\ inp[1].text = TextMessy /\ out.text # TextMessy
    /\ inp[1].date_posted.kind = "str" /\ out.date_posted.kind = "datetime"
    /\ out2 = out

(***************************************************************************)
(* Direct calls of calculate_relevance_score(text, keywords)               *)
(***************************************************************************)
\* longest keyword list
MaxKeywords == 3

KwHashHiring == <<"#", "h", "i", "r", "i", "n", "g">>

KwWe == <<"w", "e">>

ScoreKeywords == { KwHiring, KwNowHiring, KwHashHiring, KwWe }

TextNowHiring == <<"N", "o", "w", " ", "h", "i", "r", "i", "n", "g", " ", "w", "e", " ", "a", "r", "e", " ", "H", "I", "R", "I", "N", "G">>

TextHashHiring == <<"W", "e", " ", "a", "r", "e", " ", "#", "h", "i", "r", "i", "n", "g">>

TextRehiring == <<"r", "e", "h", "i", "r", "i", "n", "g">>

ScoreTexts == { <<>>, TextHiring, TextNowHiring, TextHashHiring, TextRehiring }

InitScore ==
    /\ pc = "score"
    /\ inp \in ScoreTexts
    /\ keywords = <<>>
    /\ out = 0
    /\ out2 = 0
    /\ key = "post_url"
    /\ units = <<>>
    /\ adapted = <<>>
    /\ posts = <<>>
    /\ days_limit = 0
    /\ now = ClockStart
    /\ isoZ = TRUE
    /\ stored = <<>>
    /\ logLines = 0
    /\ reported = FALSE

\* the configuration lists one more keyword
ScoreKeyword ==
    /\ pc = "score"
    /\ Len(keywords) < MaxKeywords
    /\ \E kw \in ScoreKeywords : keywords' = Append(keywords, kw)
    /\ UNCHANGED <<units, adapted, posts, days_limit, now, isoZ, stored, logLines, reported, pc, key, inp, out, out2>>

ScoreCall ==
    /\ pc = "score"
    /\ out' = calculate_relevance_score(inp, keywords)
    /\ pc' = "scored"
    /\ UNCHANGED <<main, key, inp, out2>>

\* the text gains one more occurrence of a listed keyword and is scored again
ScoreMore ==
    /\ pc = "scored"
    /\ \E i \in 1..Len(keywords) :
         /\ inp' = (IF inp = <<>> THEN <<>> ELSE inp \o Space) \o keywords[i]
         /\ out2' = calculate_relevance_score(inp', keywords)
    /\ pc' = "more"
    /\ UNCHANGED <<main, key, out>>

NextScore ==
    \/ ScoreKeyword
    \/ ScoreCall
    \/ ScoreMore

SpecScore == InitScore /\ [][NextScore]_vars

\* kw stands in s at position p as a whole word: no word character touches it
WholeWordAt(s, kw, p) ==
    /\ p + Len(kw) - 1 <= Len(s)
    /\ SubSeq(s, p, p + Len(kw) - 1) = kw
    /\ (p = 1 \/ s[p - 1] \notin WordChars)
    /\ (p + Len(kw) - 1 = Len(s) \/ s[p + Len(kw)] \notin WordChars)

\* the whole-word, non-overlapping occurrences of kw in s from position p on
RECURSIVE WholeWords(_, _, _)
WholeWords(s, kw, p) ==
    IF p > Len(s) THEN 0
    ELSE IF WholeWordAt(s, kw, p) THEN 1 + WholeWords(s, kw, p + Len(kw))
    ELSE WholeWords(s, kw, p + 1)

RECURSIVE SumWholeWords(_, _, _)
SumWholeWords(text, kws, i) ==
    IF i > Len(kws) THEN 0
    ELSE WholeWords(Lower(text), Lower(kws[i]), 1) + SumWholeWords(text, kws, i + 1)

\* C18: the score is the sum, over the listed keywords, of the number of
\* case-insensitive whole-word, non-overlapping occurrences of the keyword in
\* the text, also for multi-word keywords and keywords that begin or end with
\* a non-alphanumeric character such as "#hiring"; it is non-negative and
\* does not decrease when an occurrence of a keyword is added to the text.
C18_ScoreCountsWholeWords ==
    /\ pc = "scored" => (out = SumWholeWords(inp, keywords, 1) /\ out >= 0)
    /\ pc = "more" => out2 >= out

\* the lists that hold the items of list in another order
PermutationsOf(list) ==
    { [i \in 1..Len(list) |-> list[p[i]]] : p \in Permutations(1..Len(list)) }

\* C19: the score does not depend on the order of the keywords: every
\* permutation of the keyword list gives the same score for the same text.
C19_ScoreOrderIndependent ==
    pc = "scored" => \A P \in PermutationsOf(keywords) : calculate_relevance_score(inp, P) = out

\* C19 witness: three different keywords that occur 2, 1 and 1 times in the
\* text were scored
C19_Witness ==
    /\ pc = "scored"
    /\ inp = TextNowHiring
    /\ keywords = <<KwHiring, KwNowHiring, KwWe>>
    /\ out = 4

(***************************************************************************)
(* Direct calls of extract_text_snippet(text, max_length)                  *)
(***************************************************************************)
SnippetLengths == {10, SnippetMaxLength}

\* a text of max_length + 3 characters whose spaces are at the given
\* positions (counted from 0, as str.rfind counts)
SpacedText(max_length, spaces) == [i \in 1..(max_length + 3) |-> IF (i - 1) \in spaces THEN " " ELSE "w"]

\* no space, one space anywhere, or two spaces three apart
SpaceSets(max_length) ==
    {{}} \cup {{a} : a \in 0..(max_length + 1)} \cup {{a, a + 3} : a \in 0..(max_length - 2)}

\* the lengths of the texts: empty, one character, max_length and less, more
TextLengths(max_length) == {0, 1, max_length - 1, max_length, max_length + 1, max_length + 3}

InitSnippet ==
    /\ pc = "snippet"
    /\ inp = <<>>
    /\ out = <<>>
    /\ out2 = <<>>
    /\ key = "post_url"
    /\ units = <<>>
    /\ adapted = <<>>
    /\ posts = <<>>
    /\ keywords = <<KwHiring>>
    /\ days_limit = 0
    /\ now = ClockStart
    /\ isoZ = TRUE
    /\ stored = <<>>
    /\ logLines = 0
    /\ reported = FALSE

\* the caller has a text and a max_length
SnippetArg ==
    /\ pc = "snippet"
    /\ inp = <<>>
    /\ \E max_length \in SnippetLengths : \E spaces \in SpaceSets(max_length) :
         \E length \in TextLengths(max_length) :
           inp' = <<[max_length |-> max_length, spaces |-> spaces,
                     text |-> SubSeq(SpacedText(max_length, spaces), 1, length)]>>
    /\ UNCHANGED <<main, pc, key, out, out2>>

SnippetCall ==
    /\ pc = "snippet"
    /\ inp # <<>>
    /\ out' = extract_text_snippet(inp[1].text, inp[1].max_length)
    /\ pc' = "snipped"
    /\ UNCHANGED <<main, key, inp, out2>>

NextSnippet ==
    \/ SnippetArg
    \/ SnippetCall

SpecSnippet == InitSnippet /\ [][NextSnippet]_vars

\* the position (from 0) of the last space within the first max_length
\* characters of the text, -1 when there is none
LastSpaceWithin(arg) ==
    LET within == {a \in arg.spaces : a < arg.max_length}
    IN  IF within = {} THEN -1 ELSE CHOOSE a \in within : \A b \in within : b <= a

\* the text cut after its first n characters, with the ellipsis
CutAt(arg, n) == SubSeq(arg.text, 1, n) \o Ellipsis

\* the call has returned and the text was longer than max_length
SnippedLong == pc = "snipped" /\ Len(inp[1].text) > inp[1].max_length

\* C20 as stated: a text longer than max_length is cut at the last space
\* within its first max_length characters whenever that space is at or beyond
\* 80% of max_length (position >= 0.8 * max_length, the boundary included),
\* otherwise at max_length, and "..." is appended.
C20_CutAtSpaceFromBoundaryOn ==
    SnippedLong =>
        LET last_space == LastSpaceWithin(inp[1]) IN
        out = CutAt(inp[1], IF 10 * last_space >= 8 * inp[1].max_length
                            THEN last_space ELSE inp[1].max_length)

\* C20 amended: a text longer than max_length is cut at the last space
\* within its first max_length characters whenever that space's position
\* (counted from 0) is strictly greater than 0.8 * max_length, the boundary
\* position excluded, otherwise at max_length, and "..." is appended.
C20_CutAtSpaceBeyondBoundary ==
    SnippedLong =>
        LET last_space == LastSpaceWithin(inp[1]) IN
        out = CutAt(inp[1], IF 10 * last_space > 8 * inp[1].max_length
                            THEN last_space ELSE inp[1].max_length)

\* C20 witness: with max_length 200 a text whose last space is at position
\* 160, the boundary, was cut at 200 characters
C20_Witness ==
    /\ SnippedLong
    /\ inp[1].max_length = SnippetMaxLength
    /\ 10 * LastSpaceWithin(inp[1]) = 8 * SnippetMaxLength
    /\ Len(out) = SnippetMaxLength + 3

\* s ends with the suffix e
EndsWith(s, e) == Len(s) >= Len(e) /\ SubSeq(s, Len(s) - Len(e) + 1, Len(s)) = e

\* C21: for every text T and max_length the snippet has at most
\* max_length + 3 characters; it is T when len(T) <= max_length, and
\* otherwise it ends in "..." and what precedes the ellipsis is a prefix of T.
C21_SnippetBoundedPrefix ==
    pc = "snipped" =>
        LET T == inp[1].text
            max_length == inp[1].max_length
        IN  /\ Len(out) <= max_length + 3
            /\ Len(T) <= max_length => out = T
            /\ Len(T) > max_length =>
                 /\ EndsWith(out, Ellipsis)
                 /\ StartsWith(T, SubSeq(out, 1, Len(out) - Len(Ellipsis)))

\* C21 witness: a text of exactly max_length characters came back unchanged
C21_Witness ==
    /\ pc = "snipped"
    /\ inp[1].max_length = SnippetMaxLength
    /\ Len(inp[1].text) = SnippetMaxLength
    /\ out = inp[1].text

(***************************************************************************)
(* Direct calls of normalize_text(text)                                    *)
(***************************************************************************)
\* longest text handed to normalize_text
MaxText == 5

NormalizeChars == {"a", " ", "\n", "\t"}

InitNormalize ==
    /\ pc = "normalize"
    /\ inp = <<>>
    /\ out = <<>>
    /\ out2 = <<>>
    /\ key = "post_url"
    /\ units = <<>>
    /\ adapted = <<>>
    /\ posts = <<>>
    /\ keywords = <<KwHiring>>
    /\ days_limit = 0
    /\ now = ClockStart
    /\ isoZ = TRUE
    /\ stored = <<>>
    /\ logLines = 0
    /\ reported = FALSE

\* the text has one more character
NormalizeArg ==
    /\ pc = "normalize"
    /\ Len(inp) < MaxText
    /\ \E c \in NormalizeChars : inp' = Append(inp, c)
    /\ UNCHANGED <<main, pc, key, out, out2>>

NormalizeCall ==
    /\ pc = "normalize"
    /\ out' = normalize_text(inp)
    /\ pc' = "normalized"
    /\ UNCHANGED <<main, key, inp, out2>>

NormalizeAgain ==
    /\ pc = "normalized"
    /\ out2' = normalize_text(out)
    /\ pc' = "again"
    /\ UNCHANGED <<main, key, inp, out>>

NextNormalize ==
    \/ NormalizeArg
    \/ NormalizeCall
    \/ NormalizeAgain

SpecNormalize == InitNormalize /\ [][NextNormalize]_vars

\* C22: normalize is idempotent, its result has no leading or trailing
\* whitespace and no two consecutive whitespace characters, and empty input
\* gives the empty string.
C22_NormalizeIdempotentTrimmed ==
    /\ pc \in {"normalized", "again"} =>
         /\ out # <<>> => (out[1] \notin Whitespace /\ out[Len(out)] \notin Whitespace)
         /\ \A i \in 1..(Len(out) - 1) : ~(out[i] \in Whitespace /\ out[i + 1] \in Whitespace)
         /\ inp = <<>> => out = <<>>
    /\ pc = "again" => out2 = out

\* C22 witness: a text with leading whitespace and a run of a newline and a
\* tab between two letters was normalized twice
C22_Witness ==
    /\ pc = "again"
    /\ inp = <<" ", "a", "\n", "\t", "a">>
    /\ out = <<"a", " ", "a">>
    /\ out2 = out

(***************************************************************************)
(* Direct calls of filter_posts_by_date(posts, days_limit)                 *)
(***************************************************************************)
\* longest list handed to filter_posts_by_date
MaxFilter == 2

\* records with every form of date_posted, and one without the field
FilterRecords ==
    { Unit("mapping", {"post_url", "text", "date_posted"}, UrlRel1, TextHiring, d) : d \in DateForms }
    \cup
    { Unit("mapping", {"post_url", "text"}, UrlAbs1, TextDup, NoDate) }

\* the days_limit arguments: negative, zero, positive
FilterLimits == {0 - 1, 0, DefaultDaysLimit}

\* the call with days_limit None: `not days_limit` at line 45
filter_posts_by_date_absent(list) == [raised |-> FALSE, posts |-> list]

InitFilter ==
    /\ pc = "filter"
    /\ inp = <<>>
    /\ out = <<>>
    /\ out2 = FALSE
    /\ key = "post_url"
    /\ units = <<>>
    /\ adapted = <<>>
    /\ posts = <<>>
    /\ keywords = <<KwHiring>>
    /\ days_limit = 0
    /\ now = ClockStart
    /\ isoZ \in BOOLEAN
    /\ stored = <<>>
    /\ logLines = 0
    /\ reported = FALSE

\* the caller puts one more record on the list
FilterArg ==
    /\ pc = "filter"
    /\ Len(inp) < MaxFilter
    /\ \E post \in FilterRecords : inp' = Append(inp, post)
    /\ UNCHANGED <<main, pc, key, out, out2>>

\* the call with a days_limit; out2 tells that the argument was None
FilterCall ==
    /\ pc = "filter"
    /\ \E limit \in FilterLimits, absent \in BOOLEAN :
         /\ absent => limit = 0
         /\ days_limit' = limit
         /\ out2' = absent
         /\ out' = IF absent THEN filter_posts_by_date_absent(inp)
                   ELSE filter_posts_by_date(inp, limit, now, isoZ)
    /\ pc' = "filter_returned"
    /\ UNCHANGED <<units, adapted, posts, keywords, now, isoZ, stored, logLines, reported, key, inp>>

NextFilter ==
    \/ FilterArg
    \/ FilterCall

SpecFilter == InitFilter /\ [][NextFilter]_vars

\* C23: filter_recent called with days_limit 0, negative or absent returns
\* the input list unchanged (and does not raise).
C23_NoLimitReturnsInput ==
    (pc = "filter_returned" /\ (out2 \/ days_limit <= 0))
        => out = [raised |-> FALSE, posts |-> inp]

\* C23 witness: a list with an old record and a timezone-aware one, which a
\* positive limit would drop or raise on, came back whole with days_limit 0
C23_Witness ==
    /\ pc = "filter_returned"
    /\ ~out2
    /\ days_limit = 0
    /\ Len(inp) = 2
    /\ inp[1].date_posted = DatetimeNaive(ClockStart - 10)
    /\ inp[2].date_posted = DatetimeAware(ClockStart - 10)
    /\ out.posts = inp
    /\ ~out.raised
    /\ filter_posts_by_date(inp, DefaultDaysLimit, now, isoZ).raised

(***************************************************************************)
(* storage.py: save_posts on the table `posts`                             *)
(***************************************************************************)
\* a row of the table: the UNIQUE post_url and full_text (the rows are kept
\* in the order of their autoincremented ids)
Row(post) == [post_url |-> Get(post, "post_url"), full_text |-> Get(post, "text")]

\* INSERT without the UNIQUE constraint on post_url
execute_insert_or_replace_NoUnique(rows, row) == Append(rows, row)

\* INSERT OR REPLACE: the rows that collide on post_url are deleted first
execute_insert_or_replace(rows, row) ==
    LET Other(r) == r.post_url # row.post_url
    IN  Append(SelectSeq(rows, Other), row)

\* the loop of _save_to_db over posts[i..]; db is [rows, raised]
RECURSIVE save_loop(_, _, _)
save_loop(db, list, i) ==
    IF i > Len(list) THEN db
    ELSE save_loop([rows   |-> execute_insert_or_replace(db.rows, Row(list[i])),
                    raised |-> db.raised],
                   list, i + 1)

_save_to_db(db, list) == save_loop(db, list, 1)

save_posts(db, list) == IF list = <<>> THEN db ELSE _save_to_db(db, list)

\* most records in one batch, and most calls of save_posts
MaxBatch == 2
MaxSaves == 2

\* cleaned records: two permalinks and the empty post_url, two texts
StorageRecords ==
    { Unit("mapping", {"post_url", "text"}, u, t, NoDate) :
        u \in {<<>>, UrlAbs1, UrlBare}, t \in {TextHiring, TextDup} }

\* out is the database, out2 the one before the last call, inp the batch,
\* logLines counts the calls
InitStorage ==
    /\ pc = "batch"
    /\ inp = <<>>
    /\ out = [rows |-> <<>>, raised |-> FALSE]
    /\ out2 = [rows |-> <<>>, raised |-> FALSE]
    /\ key = "post_url"
    /\ units = <<>>
    /\ adapted = <<>>
    /\ posts = <<>>
    /\ keywords = <<KwHiring>>
    /\ days_limit = 0
    /\ now = ClockStart
    /\ isoZ = TRUE
    /\ stored = <<>>
    /\ logLines = 0
    /\ reported = FALSE

\* the caller puts one more record on the batch
StorageArg ==
    /\ pc = "batch"
    /\ Len(inp) < MaxBatch
    /\ \E post \in StorageRecords : inp' = Append(inp, post)
    /\ UNCHANGED <<main, pc, key, out, out2>>

StorageSave ==
    /\ pc = "batch"
    /\ logLines < MaxSaves
    /\ out2' = out
    /\ out' = save_posts(out, inp)
    /\ logLines' = logLines + 1
    /\ pc' = "saved"
    /\ UNCHANGED <<units, adapted, posts, keywords, days_limit, now, isoZ, stored, reported, key, inp>>

\* the caller starts the next batch
StorageNext ==
    /\ pc = "saved"
    /\ logLines < MaxSaves
    /\ inp' = <<>>
    /\ pc' = "batch"
    /\ UNCHANGED <<main, key, out, out2>>

NextStorage ==
    \/ StorageArg
    \/ StorageSave
    \/ StorageNext

SpecStorage == InitStorage /\ [][NextStorage]_vars

\* the last record of the batch with the post_url u
LastWithUrl(list, u) ==
    list[CHOOSE j \in 1..Len(list) :
            /\ Get(list[j], "post_url") = u
            /\ \A k \in (j + 1)..Len(list) : Get(list[k], "post_url") # u]

\* C26: after any sequence of save_posts calls the table has at most one row
\* per post_url; saving a record whose post_url is already stored updates
\* that row and raises nothing, and every record of the batch is saved.
C26_OneRowPerPostUrl ==
    /\ \A a, b \in 1..Len(out.rows) :
         a # b => out.rows[a].post_url # out.rows[b].post_url
    /\ ~out.raised
    /\ pc = "saved" =>
         /\ \A j \in 1..Len(inp) : \E a \in 1..Len(out.rows) :
              /\ out.rows[a].post_url = Get(inp[j], "post_url")
              /\ out.rows[a].full_text = Get(LastWithUrl(inp, Get(inp[j], "post_url")), "text")
         /\ \A b \in 1..Len(out2.rows) :
              (\A j \in 1..Len(inp) : Get(inp[j], "post_url") # out2.rows[b].post_url)
                  => \E a \in 1..Len(out.rows) : out.rows[a] = out2.rows[b]

\* C26 witness: the second call saved a batch whose first record has a
\* post_url stored by the first call and whose second record is new
C26_Witness ==
    /\ pc = "saved"
    /\ logLines = 2
    /\ Len(inp) = 2
    /\ Get(inp[1], "post_url") = UrlAbs1
    /\ Get(inp[1], "text") = TextDup
    /\ Get(inp[2], "post_url") = UrlBare
    /\ \E b \in 1..Len(out2.rows) :
         out2.rows[b].post_url = UrlAbs1 /\ out2.rows[b].full_text = TextHiring
    /\ \A b \in 1..Len(out2.rows) : out2.rows[b].post_url # UrlBare
    /\ Len(out.rows) = Len(out2.rows) + 1

(***************************************************************************)
(* scraper.py: LinkedInScraper.scrape under failures of the driver         *)
(***************************************************************************)
\* most search terms (keywords + hashtags) handed to scrape
MaxTerms == 2

\* records one page can give
PageYields == {0, 1}

\* out is [raised, posts]: what scrape gave its caller; the list is modelled
\* by its length.  out2 is the driver: [page, terms, all_posts].  inp is the
\* sequence of the failures that happened.
Driver(page, terms, all_posts) == [page |-> page, terms |-> terms, all_posts |-> all_posts]

InitScrape ==
    /\ pc = "scrape"
    /\ inp = <<>>
    /\ out = [raised |-> FALSE, posts |-> 0]
    /\ out2 \in { Driver("none", n, 0) : n \in 0..MaxTerms }
    /\ key = "post_url"
    /\ units = <<>>
    /\ adapted = <<>>
    /\ posts = <<>>
    /\ keywords = <<KwHiring>>
    /\ days_limit = 0
    /\ now = ClockStart
    /\ isoZ = TRUE
    /\ stored = <<>>
    /\ logLines = 0
    /\ reported = FALSE

ScrapeRaises(fault) ==
    /\ inp' = Append(inp, fault)
    /\ out' = [raised |-> TRUE, posts |-> 0]
    /\ pc' = "scrape_raised"
    /\ UNCHANGED <<main, key, out2>>

ScrapeReturns(faults, n) ==
    /\ inp' = inp \o faults
    /\ out' = [raised |-> FALSE, posts |-> n]
    /\ pc' = "scrape_returned"
    /\ UNCHANGED <<main, key, out2>>

ScrapeGoesOn(faults, to, driver) ==
    /\ inp' = inp \o faults
    /\ out2' = driver
    /\ pc' = to
    /\ UNCHANGED <<main, key, out>>

\* scraper.py:697 and 38-104: start_browser, called outside every try
StartBrowser ==
    /\ pc = "scrape"
    /\ \/ ScrapeRaises("playwright_start")
       \/ \E page \in {"open", "closed"} :
            ScrapeGoesOn(<<>>, "started", [out2 EXCEPT !.page = page])
       \/ \E page \in {"open", "closed"} :
            ScrapeGoesOn(<<"persistent_launch">>, "started", [out2 EXCEPT !.page = page])
       \/ /\ inp' = inp \o <<"persistent_launch", "fallback_launch">>
          /\ out' = [raised |-> TRUE, posts |-> 0]
          /\ pc' = "scrape_raised"
          /\ UNCHANGED <<main, key, out2>>

\* scraper.py:699-724: the page is recreated when it is closed
EnsurePage ==
    /\ pc = "started"
    /\ \/ /\ out2.page = "open"
          /\ ScrapeGoesOn(<<>>, "page_ready", out2)
       \/ /\ out2.page = "closed"
          /\ \E page \in {"open", "closed"} :
               ScrapeGoesOn(<<>>, "page_ready", [out2 EXCEPT !.page = page])
       \/ \E page \in {"open", "closed"} :
            ScrapeGoesOn(<<"page_status">>, "page_ready", [out2 EXCEPT !.page = page])
       \/ ScrapeReturns(<<"page_status", "new_page">>, 0)

\* scraper.py:726-788: the login check and its recovery
LoginCheck ==
    /\ pc = "page_ready"
    /\ \/ ScrapeGoesOn(<<>>, "login_checked", [out2 EXCEPT !.page = "open"])
       \/ ScrapeGoesOn(<<"login_navigation">>, "login_checked", out2)
       \/ ScrapeReturns(<<"login_check">>, 0)
       \/ ScrapeGoesOn(<<"target_closed">>, "login_checked", [out2 EXCEPT !.page = "open"])
       \/ ScrapeReturns(<<"target_closed", "not_logged_in">>, 0)
       \/ ScrapeReturns(<<"target_closed", "feed_navigation">>, 0)

\* scraper.py:298-354: search_posts up to the end of the feed search
SearchFeed ==
    /\ pc = "login_checked"
    /\ \/ /\ out2.terms = 0
          /\ ScrapeReturns(<<>>, 0)
       \/ /\ out2.terms > 0
          /\ \/ \E n \in PageYields :
                  ScrapeGoesOn(<<>>, "searching", [out2 EXCEPT !.all_posts = n])
             \/ \E n \in PageYields :
                  ScrapeGoesOn(<<"feed_navigation">>, "searching", [out2 EXCEPT !.all_posts = n])
             \/ ScrapeGoesOn(<<"feed_search">>, "searching", out2)

\* scraper.py:358-411: one search term
SearchTerm ==
    /\ pc = "searching"
    /\ out2.terms > 0
    /\ \/ \E n \in PageYields :
            ScrapeGoesOn(<<>>, "searching",
                         [out2 EXCEPT !.terms = @ - 1, !.all_posts = @ + n])
       \/ ScrapeGoesOn(<<"search_navigation">>, "searching", [out2 EXCEPT !.terms = @ - 1])
       \/ ScrapeGoesOn(<<"search_term">>, "searching", [out2 EXCEPT !.terms = @ - 1])

\* scraper.py:413-453 and 790-801: the end of search_posts, inside the try
\* of scrape; deduplication returns some of the records, none only of none
SearchReturn ==
    /\ pc = "searching"
    /\ out2.terms = 0
    /\ \/ \E n \in 0..out2.all_posts :
            /\ (n = 0) = (out2.all_posts = 0)
            /\ ScrapeReturns(<<>>, n)
       \/ ScrapeReturns(<<"search_posts">>, 0)

NextScrape ==
    \/ StartBrowser
    \/ EnsurePage
    \/ LoginCheck
    \/ SearchFeed
    \/ SearchTerm
    \/ SearchReturn

SpecScrape == InitScrape /\ [][NextScrape]_vars

\* C27: for every combination of failures of the driver (browser launch,
\* closed page, navigation to the login, feed or search pages, selector
\* misses, extraction errors) scrape returns a list, possibly empty, and
\* never raises to its caller.
C27_ScrapeNeverRaises ==
    /\ ~out.raised
    /\ pc # "scrape_raised"

(***************************************************************************)
(* scraper.py: LinkedInScraper._scroll_and_load_posts                      *)
(***************************************************************************)
\* largest target_count handed to _scroll_and_load_posts
MaxTarget == 3

DefaultMaxScrolls == 10

TargetCounts == (0 - 1)..MaxTarget

\* values of document.body.scrollHeight
Heights == {1, 2}

max_scrolls(target_count) == IF target_count > 0 THEN target_count ELSE DefaultMaxScrolls

\* inp is target_count; out is the frame of the call: last_height,
\* scroll_count, the scrolls performed, why the loop stopped, and whether
\* the call raised
Frame(last_height, scroll_count, scrolls, stopped) ==
    [last_height |-> last_height, scroll_count |-> scroll_count,
     scrolls |-> scrolls, stopped |-> stopped, raised |-> FALSE]

InitScroll ==
    /\ pc = "scroll"
    /\ inp \in TargetCounts
    /\ out = Frame(0, 0, 0, "")
    /\ out2 = <<>>
    /\ key = "post_url"
    /\ units = <<>>
    /\ adapted = <<>>
    /\ posts = <<>>
    /\ keywords = <<KwHiring>>
    /\ days_limit = 0
    /\ now = ClockStart
    /\ isoZ = TRUE
    /\ stored = <<>>
    /\ logLines = 0
    /\ reported = FALSE

\* scraper.py:457-465: up to the loop
ScrollEnter ==
    /\ pc = "scroll"
    /\ \/ /\ out' = [out EXCEPT !.stopped = "closed"]
          /\ pc' = "scroll_returned"
       \/ /\ out' = [out EXCEPT !.stopped = "failed"]
          /\ pc' = "scroll_returned"
       \/ \E h \in Heights :
            /\ out' = [out EXCEPT !.last_height = h]
            /\ pc' = "scroll_loop"
    /\ UNCHANGED <<main, key, inp, out2>>

\* one iteration that goes round without counting it
ScrollStep_NoCount ==
    /\ pc = "scroll_loop"
    /\ out.scroll_count < max_scrolls(inp)
    /\ \/ /\ out' = [out EXCEPT !.stopped = "closed"]
          /\ pc' = "scroll_returned"
       \/ /\ out' = [out EXCEPT !.stopped = "failed"]
          /\ pc' = "scroll_returned"
       \/ /\ out' = [out EXCEPT !.stopped = "failed", !.scrolls = @ + 1]
          /\ pc' = "scroll_returned"
       \/ \E new_height \in Heights :
            IF new_height = out.last_height
            THEN /\ out' = [out EXCEPT !.stopped = "same_height", !.scrolls = @ + 1]
                 /\ pc' = "scroll_returned"
            ELSE /\ out' = [out EXCEPT !.last_height = new_height, !.scrolls = @ + 1]
                 /\ pc' = "scroll_loop"
    /\ UNCHANGED <<main, key, inp, out2>>

\* scraper.py:467-484: one iteration of the loop: the page is closed; the
\* scroll fails; the scroll is done and reading the height fails; the height
\* is read
ScrollStep ==
    /\ pc = "scroll_loop"
    /\ out.scroll_count < max_scrolls(inp)
    /\ \/ /\ out' = [out EXCEPT !.stopped = "closed"]
          /\ pc' = "scroll_returned"
       \/ /\ out' = [out EXCEPT !.stopped = "failed"]
          /\ pc' = "scroll_returned"
       \/ /\ out' = [out EXCEPT !.stopped = "failed", !.scrolls = @ + 1]
          /\ pc' = "scroll_returned"
       \/ \E new_height \in Heights :
            IF new_height = out.last_height
            THEN /\ out' = [out EXCEPT !.stopped = "same_height", !.scrolls = @ + 1]
                 /\ pc' = "scroll_returned"
            ELSE /\ out' = [out EXCEPT !.last_height = new_height,
                                       !.scroll_count = @ + 1, !.scrolls = @ + 1]
                 /\ pc' = "scroll_loop"
    /\ UNCHANGED <<main, key, inp, out2>>

\* scraper.py:467: the loop's test fails
ScrollExit ==
    /\ pc = "scroll_loop"
    /\ out.scroll_count >= max_scrolls(inp)
    /\ out' = [out EXCEPT !.stopped = "max_scrolls"]
    /\ pc' = "scroll_returned"
    /\ UNCHANGED <<main, key, inp, out2>>

NextScroll ==
    \/ ScrollEnter
    \/ ScrollStep
    \/ ScrollExit

\* every awaited call of the driver returns or raises
SpecScroll == InitScroll /\ [][NextScroll]_vars /\ WF_vars(NextScroll)

\* the bound the claim gives: target_count when positive, otherwise 10
ScrollLimit == IF inp > 0 THEN inp ELSE 10

ScrollBounded ==
    /\ out.scrolls <= ScrollLimit
    /\ ~out.raised
    /\ pc = "scroll_loop" => out.stopped = ""
    /\ pc = "scroll_returned" =>
         /\ out.stopped \in {"closed", "failed", "same_height", "max_scrolls"}
         /\ out.stopped = "max_scrolls" => out.scrolls = ScrollLimit

\* C30: _scroll_and_load_posts always terminates: it performs at most
\* max_scrolls scrolls (target_count when positive, otherwise 10), stops
\* earlier when the height is unchanged after a scroll, the page is closed
\* or an evaluation fails, and never raises.
C30_ScrollTerminates == []ScrollBounded /\ <>(pc = "scroll_returned")

\* C30 witness: called with target_count 0, the loop went round ten times
\* and ended on its own test
C30_Witness ==
    /\ pc = "scroll_returned"
    /\ inp = 0
    /\ out.scrolls = DefaultMaxScrolls
    /\ out.stopped = "max_scrolls"

====
